---- MODULE Spec2Model ----
(***************************************************************************)
(* Adaptive quiz session engine of the vocabulary-learning backend.        *)
(*                                                                         *)
(* The model follows src/quiz_logic.py (QuizEngine, QuizService) and the   *)
(* session endpoints of src/main.py.  The database tables are variables    *)
(* (quiz_attempts, quiz_attempt_items, responses, word_mastery); the       *)
(* in-memory registry active_quiz_sessions and the QuizSession objects it  *)
(* points to are variables too.  The connection is opened with             *)
(* autocommit = True, so every INSERT is durable as soon as it is issued   *)
(* and an exception leaves the rows written before it in place.            *)
(*                                                                         *)
(* The endpoints are `async def` bodies without any await, so one request  *)
(* is handled in one atomic step of the event loop; what is concurrent is  *)
(* the clients: a request is issued (Issue) from what the client saw and   *)
(* handled later (HandleSubmit), possibly after other requests.            *)
(***************************************************************************)
EXTENDS Integers, Sequences, FiniteSets, Bags, TLC

(***************************************************************************)
(* Bounds of the model.                                                    *)
(***************************************************************************)
NumQuestions == 2      \* questions in the catalog
NumUsers == 2          \* registered users
MaxInFlight == 2       \* requests that can be in flight at once
MaxSessions == 2       \* sessions ever created
MaxAttempts == 3       \* rows of quiz_attempts
MaxRounds == 2         \* imperfect round results the sessions accumulate
MaxResponses == 2      \* responses in one submission
MaxRows == 2           \* rows of the responses table
MaxFailures == 1       \* store failures injected

\* The bounds are explored one dimension at a time: a behaviour runs under one
\* of these limits, fixed when it starts.
Limits(sessions, in_flight, users, failures) ==
    [sessions |-> sessions, in_flight |-> in_flight, users |-> users,
     failures |-> failures, attempts |-> MaxAttempts, rounds |-> MaxRounds,
     rows |-> MaxRows]

Scenarios ==
    {Limits(1, 1, NumUsers, MaxFailures),
     Limits(1, MaxInFlight, 1, 0),
     Limits(MaxSessions, 1, 1, MaxFailures)}

(***************************************************************************)
(* Program constants.                                                      *)
(***************************************************************************)
MinTargetQuestionCount == 5

Questions == 1..NumQuestions
UnknownQuestion == NumQuestions + 1
QuestionIds == Questions \cup {UnknownQuestion}
Users == 1..NumUsers
SessionIds == 1..MaxSessions
QuizTypes == {"synonym", "antonym"}
Words == {1, 2, 3}
Answers == {" Big ", "small"}
None == 0

Max(S) == CHOOSE x \in S : \A y \in S : y <= x
Min(S) == CHOOSE x \in S : \A y \in S : x <= y
MinOf(a, b) == IF a <= b THEN a ELSE b

(***************************************************************************)
(* The catalog: questions, quiz_types, word_question_map.                  *)
(***************************************************************************)
\* the type of the questions the session runs start with
InitialType(q) == IF q % 2 = 1 THEN "synonym" ELSE "antonym"
correct_answer_of(q) == "Big"

VARIABLES
    quiz_attempts,         \* table: attempt_id -> [user_id, completed_at]
    quiz_attempt_items,    \* table: attempt_id -> question ids of the attempt
    responses,             \* table: bag of [attempt_id, question_id, is_correct]
    word_mastery,          \* table: <<user_id, word_id>> with mastered = TRUE
    question_mastery,      \* table: <<user_id, question_id>> ->
                           \* [first_try_correct_count, is_mastered]
    catalog_questions,     \* table questions: question_id -> quiz type name
    generated,             \* the calls of generate_quiz made through
                           \* POST /api/quiz/create, with what they returned
    mappings,              \* table word_question_map: <<question_id, word_id>>
    correct_first_attempts, \* per <<user_id, question_id>>: the correct first
                           \* responses recorded so far (history)
    sessions,              \* the QuizSession objects, by session id
    active_quiz_sessions,  \* the registry: session ids it holds
    pending,               \* requests in flight: bag of
                           \* [session_id, user_id, seen_round]
    user_rows,             \* table users: user_id -> [username,
                           \* password_hash, email]
    csv_uploads,           \* table csv_uploads, by upload id, with the
                           \* history of the import calls of each upload
    recording,             \* INSERTs into responses whose trigger has not
                           \* finished: bag of [user_id, question_id,
                           \* is_correct, is_first_attempt, snapshot]
    seen_rounds,           \* per session, per round result: the round the
                           \* client was answering when it sent the request
    failures,              \* store failures so far
    limits                 \* the limits this behaviour runs under

vars == <<quiz_attempts, quiz_attempt_items, responses, word_mastery,
          question_mastery, catalog_questions, mappings, correct_first_attempts,
          sessions, active_quiz_sessions, pending, seen_rounds, failures, limits,
          generated, recording, user_rows, csv_uploads>>

\* the tables the quiz endpoints do not write
other_tables == <<user_rows, csv_uploads>>

mastery == <<question_mastery, correct_first_attempts, recording>>

db == <<quiz_attempts, quiz_attempt_items, responses, word_mastery,
        question_mastery, catalog_questions, mappings, correct_first_attempts,
        recording>>

catalog == <<catalog_questions, mappings>>

quiz_type_of(q) == catalog_questions[q]

\* the words a question is mapped to
word_question_map(q) == {w \in Words : <<q, w>> \in mappings}

\* the mappings a catalog starts with
InitialMappings(catalog_ids) == {<<q, (q % 2) + 1>> : q \in catalog_ids}

NoMastery == [first_try_correct_count |-> 0, is_mastered |-> FALSE]

(***************************************************************************)
(* selected_answer.strip().lower()                                         *)
(***************************************************************************)
StripLower(s) ==
    CASE s = " Big " -> "big"
      [] s = "Big" -> "big"
      [] OTHER -> s

RECURSIVE LastN(_, _)
LastN(S, n) ==
    IF n <= 0 \/ S = {} THEN {}
    ELSE {Max(S)} \cup LastN(S \ {Max(S)}, n - 1)

RECURSIVE SeqOfSet(_)
SeqOfSet(S) ==
    IF S = {} THEN << >>
    ELSE <<Min(S)>> \o SeqOfSet(S \ {Min(S)})

SeqToSet(s) == {s[i] : i \in DOMAIN s}

(***************************************************************************)
(* Question selector.                                                      *)
(***************************************************************************)
get_excluded_questions(user_id, recent_attempts) ==
    LET mine == {a \in DOMAIN quiz_attempts : quiz_attempts[a].user_id = user_id}
        recent_attempt_ids == LastN(mine, recent_attempts)
    IN  {r.question_id : r \in {x \in BagToSet(responses) :
                                    x.attempt_id \in recent_attempt_ids}}

get_globally_mastered_words(user_id) ==
    {w \in Words : <<user_id, w>> \in word_mastery}

\* variant: the recently answered questions are not filtered out
EligibleIgnoringRecent(quiz_type, excluded_questions, excluded_words) ==
    {q \in DOMAIN catalog_questions :
        /\ quiz_type_of(q) = quiz_type
        /\ word_question_map(q) \cap excluded_words = {}}

\* variant: a question is dropped only when all its words are excluded
EligibleUnlessSomeWordLeft(quiz_type, excluded_questions, excluded_words) ==
    {q \in DOMAIN catalog_questions :
        /\ quiz_type_of(q) = quiz_type
        /\ q \notin excluded_questions
        /\ (word_question_map(q) = {} \/ word_question_map(q) \ excluded_words # {})}

Eligible(quiz_type, excluded_questions, excluded_words) ==
    {q \in DOMAIN catalog_questions : /\ quiz_type_of(q) = quiz_type
                       /\ q \notin excluded_questions
                       /\ word_question_map(q) \cap excluded_words = {}}

\* variant: every row of the query is kept (no break at count)
get_questions_by_criteria_all_rows(quiz_type, count, excluded_questions, excluded_words) ==
    LET e == Eligible(quiz_type, excluded_questions, excluded_words)
        n == MinOf(count * 2, Cardinality(e))
    IN  {S \in SUBSET e : Cardinality(S) = n}

\* the possible results of one query: ORDER BY RANDOM() LIMIT count * 2, then
\* the first count rows
get_questions_by_criteria(quiz_type, count, excluded_questions, excluded_words) ==
    LET e == Eligible(quiz_type, excluded_questions, excluded_words)
        n == MinOf(count, Cardinality(e))
    IN  {S \in SUBSET e : Cardinality(S) = n}

\* all_questions[:stop] of a list of the given length
SliceLen(len, stop) ==
    IF stop >= 0 THEN MinOf(stop, len) ELSE Max({0, len + stop})

\* variant: the backfill excludes the recent questions only
backfill_excluded_recent_only(excluded_questions, all_questions) ==
    excluded_questions

\* excluded_questions.update(used_question_ids) before the backfill query
backfill_excluded(excluded_questions, all_questions) ==
    excluded_questions \cup BagToSet(all_questions)

\* the loop over config.format_distribution: the possible results, each
\* giving the questions found for every quiz type of the distribution
per_type_step(excluded_questions, excluded_words, dist) ==
    LET found(t) == get_questions_by_criteria(t, dist[t],
                        excluded_questions, excluded_words)
    IN  {f \in [DOMAIN dist -> UNION {found(t) : t \in DOMAIN dist}] :
            \A t \in DOMAIN dist : f[t] \in found(t)}

\* all_questions after the loop, as a bag of question ids
all_questions_of(f) ==
    [q \in UNION {f[t] : t \in DOMAIN f} |->
        Cardinality({t \in DOMAIN f : q \in f[t]})]

\* variant: the backfill asks for the whole target
backfill_needed_whole_target(config, all_questions) ==
    config.target_question_count

\* needed = config.target_question_count - len(all_questions)
backfill_needed(config, all_questions) ==
    config.target_question_count - BagCardinality(all_questions)

\* the backfill: the possible sets of questions it adds to all_questions
\* (the empty set alone when it does not run)
backfill_step(excluded_questions, excluded_words, config, all_questions) ==
    IF BagCardinality(all_questions) < config.target_question_count
    THEN get_questions_by_criteria("synonym",
             backfill_needed(config, all_questions),
             backfill_excluded(excluded_questions, all_questions),
             excluded_words)
    ELSE {{}}

\* the possible final_questions of generate_quiz, as bags of question ids:
\* the per-type queries, the synonym backfill, the shuffle and the slice
select_questions(excluded_questions, excluded_words, config) ==
    LET dist == config.format_distribution
        picks == per_type_step(excluded_questions, excluded_words, dist)
        per_type == {all_questions_of(f) : f \in picks}
        backfilled(all) ==
            {all (+) SetToBag(b) :
                b \in backfill_step(excluded_questions, excluded_words, config, all)}
        sliced(all) ==
            {S \in SubBag(all) :
                BagCardinality(S) =
                    SliceLen(BagCardinality(all), config.target_question_count)}
    IN  UNION {UNION {sliced(b) : b \in backfilled(all)} : all \in per_type}

\* the possible question sets of generate_quiz
generate_quiz(user_id, config) ==
    {BagToSet(final_questions) : final_questions \in
        select_questions(get_excluded_questions(user_id, config.exclude_recent_attempts),
                         get_globally_mastered_words(user_id), config)}

FormatDistributions == {[t \in D |-> 1] : D \in SUBSET QuizTypes}

QuizConfigs ==
    [target_question_count : {MinTargetQuestionCount},
     format_distribution : FormatDistributions,
     exclude_recent_attempts : {0, 1}]

(***************************************************************************)
(* QuizSession and the state after start-up.                               *)
(***************************************************************************)
QuizSession(user_id, questions, attempt_id) ==
    [user_id |-> user_id,
     original_questions |-> questions,
     current_round |-> 1,
     first_attempt_id |-> attempt_id,
     current_attempt_id |-> attempt_id,
     completed_rounds |-> << >>,
     is_completed |-> FALSE]

\* the state after start-up on a catalog with the given questions
InitOn(catalog_ids) ==
    /\ quiz_attempts = << >>
    /\ quiz_attempt_items = << >>
    /\ responses = EmptyBag
    /\ word_mastery = {}
    /\ question_mastery = [x \in Users \X Questions |-> NoMastery]
    /\ catalog_questions = [q \in catalog_ids |-> InitialType(q)]
    /\ generated = << >>
    /\ mappings = InitialMappings(catalog_ids)
    /\ correct_first_attempts = [x \in Users \X Questions |-> 0]
    /\ sessions = << >>
    /\ active_quiz_sessions = {}
    /\ pending = EmptyBag
    /\ recording = EmptyBag
    /\ user_rows = << >>
    /\ csv_uploads = << >>
    /\ seen_rounds = << >>
    /\ failures = 0

Init ==
    /\ InitOn(Questions)
    /\ limits \in Scenarios

StoreFails ==
    /\ failures < limits.failures
    /\ failures' = failures + 1

(***************************************************************************)
(* POST /api/quiz/session/create                                           *)
(***************************************************************************)
\* variant: the session is built without its active attempt
create_quiz_session_unattached(user_id, questions, attempt_id) ==
    [QuizSession(user_id, questions, attempt_id) EXCEPT !.current_attempt_id = None]

create_quiz_session(user_id, questions, attempt_id) ==
    QuizSession(user_id, questions, attempt_id)

CreateQuizSession(user, config) ==
    /\ Len(sessions) < limits.sessions
    /\ user <= limits.users
    /\ Len(quiz_attempts) < limits.attempts
    /\ \E final_questions \in generate_quiz(user, config) :
        LET attempt_id == Len(quiz_attempts) + 1
            session_id == Len(sessions) + 1
        IN  /\ quiz_attempts' = Append(quiz_attempts,
                                    [user_id |-> user, completed_at |-> FALSE])
            /\ quiz_attempt_items' = Append(quiz_attempt_items, final_questions)
            /\ sessions' = Append(sessions,
                                create_quiz_session(user, final_questions, attempt_id))
            /\ active_quiz_sessions' = active_quiz_sessions \cup {session_id}
    /\ seen_rounds' = Append(seen_rounds, << >>)
    /\ UNCHANGED <<responses, word_mastery, mastery, catalog, pending,
                   failures, limits, generated, other_tables>>

\* a store failure inside generate_quiz: before the attempt row is inserted,
\* or while its items are inserted; the endpoint answers 500 and registers
\* nothing
CreateQuizSessionFails(user, config) ==
    /\ StoreFails
    /\ user <= limits.users
    /\ Len(quiz_attempts) < limits.attempts
    /\ \/ UNCHANGED <<quiz_attempts, quiz_attempt_items>>
       \/ \E final_questions \in generate_quiz(user, config) :
          \E written \in (SUBSET final_questions) \ {final_questions} :
            /\ quiz_attempts' = Append(quiz_attempts,
                                    [user_id |-> user, completed_at |-> FALSE])
            /\ quiz_attempt_items' = Append(quiz_attempt_items, written)
    /\ UNCHANGED <<responses, word_mastery, mastery, catalog, sessions,
                   active_quiz_sessions, pending, seen_rounds, limits, generated, other_tables>>

(***************************************************************************)
(* A client sends a round submission for a session it has the id of.  The  *)
(* request is in flight until the endpoint handles it; seen_round is the   *)
(* round the client was answering when it sent the request.                *)
(***************************************************************************)
RoundOf(session_id) ==
    IF session_id \in DOMAIN sessions
    THEN Len(sessions[session_id].completed_rounds) + 1
    ELSE 0

\* a client sends a submission for a session with the token of user_id
Issue(session_id, user_id) ==
    /\ BagCardinality(pending) < limits.in_flight
    /\ session_id \in DOMAIN sessions
    /\ user_id <= limits.users
    /\ pending' = pending (+) SetToBag({[session_id |-> session_id,
                                         user_id |-> user_id,
                                         seen_round |-> RoundOf(session_id)]})
    /\ UNCHANGED <<db, sessions, active_quiz_sessions, seen_rounds, failures, limits, generated, other_tables>>

(***************************************************************************)
(* QuizEngine.submit_response / submit_quiz                                *)
(***************************************************************************)
ResponseLists ==
    UNION {[1..n -> [question_id : QuestionIds, answer : Answers]] : n \in 0..MaxResponses}

IsCorrect(selected_answer, correct_answer) ==
    StripLower(selected_answer) = StripLower(correct_answer)

submit_response(r) ==
    [question_id |-> r.question_id,
     is_correct |-> IsCorrect(r.answer, correct_answer_of(r.question_id))]

\* variant: only a store failure stops the loop
FirstFailureOfStore(resp, fail_at) ==
    IF fail_at \in DOMAIN resp THEN fail_at ELSE 0

\* index of the first response at which submit_quiz raises: the question is
\* not in the catalog (ValueError) or the store fails there (fail_at); 0 if
\* every response is recorded
FirstFailure(resp, fail_at) ==
    LET bad == {i \in DOMAIN resp : resp[i].question_id \notin DOMAIN catalog_questions
                                   \/ i = fail_at}
    IN  IF bad = {} THEN 0 ELSE Min(bad)

\* the rows INSERTed into responses for the first n responses
RECURSIVE RecordedRows(_, _, _)
RecordedRows(attempt_id, resp, n) ==
    IF n = 0 THEN EmptyBag
    ELSE RecordedRows(attempt_id, resp, n - 1) (+)
         SetToBag({[attempt_id |-> attempt_id,
                    question_id |-> resp[n].question_id,
                    is_correct |-> submit_response(resp[n]).is_correct]})

(***************************************************************************)
(* The mastery update that the INSERT INTO responses of submit_response    *)
(* triggers: recordAttempt(userID, questionID, isCorrect,                  *)
(* isFirstAttemptThisRound) of the Mastery Aggregator.                     *)
(***************************************************************************)
MasteryThreshold == 2

\* resp[i] is the first response to its question within the quiz attempt:
\* neither a stored row nor an earlier response of this submission has it
IsFirstAttempt(rows, attempt_id, resp, i) ==
    /\ ~\E row \in BagToSet(rows) :
            /\ row.attempt_id = attempt_id
            /\ row.question_id = resp[i].question_id
    /\ ~\E j \in 1..(i - 1) : resp[j].question_id = resp[i].question_id

\* variants of the update: counting every correct response, never capping,
\* mastering on the first correct first attempt
record_attempt_every_response(m, is_correct, is_first_attempt) ==
    IF is_correct /\ ~m.is_mastered
    THEN [first_try_correct_count |-> m.first_try_correct_count + 1,
          is_mastered |-> m.first_try_correct_count + 1 >= MasteryThreshold]
    ELSE m

record_attempt_uncapped(m, is_correct, is_first_attempt) ==
    IF is_correct /\ is_first_attempt
    THEN [first_try_correct_count |-> m.first_try_correct_count + 1,
          is_mastered |-> m.first_try_correct_count + 1 >= MasteryThreshold]
    ELSE m

record_attempt_eager(m, is_correct, is_first_attempt) ==
    IF is_correct /\ is_first_attempt /\ ~m.is_mastered
    THEN [first_try_correct_count |-> m.first_try_correct_count + 1,
          is_mastered |-> TRUE]
    ELSE m

\* a correct first attempt increments the counter, capped once mastered
record_attempt(m, is_correct, is_first_attempt) ==
    IF is_correct /\ is_first_attempt /\ ~m.is_mastered
    THEN [first_try_correct_count |-> m.first_try_correct_count + 1,
          is_mastered |-> m.first_try_correct_count + 1 >= MasteryThreshold]
    ELSE m

\* the table after the updates triggered by the first n responses
RECURSIVE MasteryAfter(_, _, _, _, _, _)
MasteryAfter(table, rows, user_id, attempt_id, resp, n) ==
    IF n = 0 THEN table
    ELSE [MasteryAfter(table, rows, user_id, attempt_id, resp, n - 1)
             EXCEPT ![<<user_id, resp[n].question_id>>] =
                 record_attempt(@, submit_response(resp[n]).is_correct,
                                IsFirstAttempt(rows, attempt_id, resp, n))]

\* history: the correct first attempts among the first n responses
FirstCorrectCount(rows, attempt_id, resp, n, q) ==
    Cardinality({i \in 1..n :
        /\ resp[i].question_id = q
        /\ submit_response(resp[i]).is_correct
        /\ IsFirstAttempt(rows, attempt_id, resp, i)})

\* variant: the update of the last recorded row is lost
EffectsAppliedButLast(recorded) == IF recorded > 0 THEN recorded - 1 ELSE 0

\* the trigger runs in the transaction of its INSERT: of the rows that were
\* recorded, every one has had its update applied, and no other
EffectsApplied(recorded) == recorded

\* the n responses recorded by a submission reach the mastery table
RecordAttempts(attempt_id, resp, n) ==
    LET user_id == quiz_attempts[attempt_id].user_id
    IN  /\ question_mastery' =
              MasteryAfter(question_mastery, responses, user_id, attempt_id, resp, n)
        /\ correct_first_attempts' =
              [x \in Users \X Questions |->
                  IF x[1] = user_id
                  THEN correct_first_attempts[x] +
                       FirstCorrectCount(responses, attempt_id, resp, n, x[2])
                  ELSE correct_first_attempts[x]]
        /\ UNCHANGED recording

IsPerfectScore(correct_count, total_count) == correct_count = total_count

IncorrectQuestionIds(quiz_responses) ==
    {quiz_responses[i].question_id :
        i \in {j \in DOMAIN quiz_responses : ~quiz_responses[j].is_correct}}

submit_quiz(attempt_id, resp) ==
    LET quiz_responses == [i \in DOMAIN resp |-> submit_response(resp[i])]
        correct_count == Cardinality({i \in DOMAIN resp : quiz_responses[i].is_correct})
        total_count == Len(resp)
        is_perfect_score == IsPerfectScore(correct_count, total_count)
    IN  [attempt_id |-> attempt_id,
         total_questions |-> total_count,
         correct_answers |-> correct_count,
         score_percentage |-> IF total_count > 0
                              THEN (correct_count * 100) \div total_count ELSE 0,
         responses |-> quiz_responses,
         is_perfect_score |-> is_perfect_score,
         incorrect_questions |-> IF is_perfect_score THEN {}
                                 ELSE IncorrectQuestionIds(quiz_responses)]

(***************************************************************************)
(* QuizEngine.submit_quiz_session_round: the session object after the      *)
(* call.  retry_attempt_id is the id returned by create_retry_quiz, or     *)
(* None when create_retry_quiz raised (the session was already mutated).   *)
(***************************************************************************)
submit_quiz_session_round(session, result, retry_attempt_id) ==
    LET appended == [session EXCEPT !.completed_rounds = Append(@, result)]
    IN  IF result.is_perfect_score
        THEN [appended EXCEPT !.is_completed = TRUE]
        ELSE IF result.incorrect_questions # {}
             THEN IF retry_attempt_id = None
                  THEN [appended EXCEPT !.current_round = @ + 1]
                  ELSE [appended EXCEPT !.current_round = @ + 1,
                                        !.current_attempt_id = retry_attempt_id]
             ELSE [appended EXCEPT !.is_completed = TRUE]

\* variants of the clean-up: after every round, never, the whole registry
EvictAfterEveryRound(registry, session_id, session) ==
    registry \ {session_id}

EvictNever(registry, session_id, session) ==
    registry

EvictAll(registry, session_id, session) ==
    IF session.is_completed THEN {} ELSE registry

\* del active_quiz_sessions[session_id] when the updated session is completed
Evict(registry, session_id, session) ==
    IF session.is_completed THEN registry \ {session_id} ELSE registry

(***************************************************************************)
(* POST /api/quiz/session/{session_id}/submit                              *)
(*                                                                         *)
(* fail names the store call that raises, if any: "score" is a query of    *)
(* submit_quiz after the responses were recorded, "retry_attempt" and      *)
(* "retry_items" are the two INSERTs of create_retry_quiz; fail_at is the  *)
(* index of the response whose INSERT raises (0: none).                    *)
(***************************************************************************)
FailPoints == {"none", "score", "retry_attempt", "retry_items"}

RightAnswer(q) == CHOOSE a \in Answers : IsCorrect(a, correct_answer_of(q))

AllCorrect(questions) ==
    [i \in 1..Cardinality(questions) |->
        [question_id |-> SeqOfSet(questions)[i],
         answer |-> RightAnswer(SeqOfSet(questions)[i])]]

\* the bounds on the tables and on the round results; the submission that
\* answers every question of the current attempt correctly is always possible
RowsFit(n) == BagCardinality(responses) + n <= limits.rows

RECURSIVE RoundsOfFirst(_)
RoundsOfFirst(n) ==
    IF n = 0 THEN 0
    ELSE Len(sessions[n].completed_rounds) + RoundsOfFirst(n - 1)

TotalRounds == RoundsOfFirst(Len(sessions))

MarkCompleted(attempts, attempt_id) ==
    [attempts EXCEPT ![attempt_id].completed_at = TRUE]

NewAttempt(user_id) == [user_id |-> user_id, completed_at |-> FALSE]

\* the session object was mutated by a request sent in round seen_round
Mutate(session_id, session, seen_round) ==
    /\ sessions' = [sessions EXCEPT ![session_id] = session]
    /\ seen_rounds' = [seen_rounds EXCEPT ![session_id] = Append(@, seen_round)]

\* variant: the look-up finds every session ever created
IsRegisteredEver(session_id) == session_id \in DOMAIN sessions

\* active_quiz_sessions.get(session_id) finds a session
IsRegistered(session_id) == session_id \in active_quiz_sessions

\* session = active_quiz_sessions.get(session_id); if not session: 404
HandleSubmitNotFound(request) ==
    /\ BagIn(request, pending)
    /\ ~IsRegistered(request.session_id)
    /\ pending' = pending (-) SetToBag({request})
    /\ UNCHANGED <<db, sessions, active_quiz_sessions, seen_rounds, failures, limits, generated, other_tables>>

\* variant: any token passes the ownership check
IsOwnerAnyone(user_id, session) == TRUE

\* token_data["user_id"] != session.user_id, negated
IsOwner(user_id, session) == user_id = session.user_id

\* if token_data["user_id"] != session.user_id: 403
HandleSubmitDenied(request) ==
    /\ BagIn(request, pending)
    /\ IsRegistered(request.session_id)
    /\ ~IsOwner(request.user_id, sessions[request.session_id])
    /\ pending' = pending (-) SetToBag({request})
    /\ UNCHANGED <<db, sessions, active_quiz_sessions, seen_rounds, failures, limits, generated, other_tables>>

\* the owner's submission reaches QuizService.submit_quiz_session_round
HandleSubmit(request, resp, fail, fail_at) ==
    LET session_id == request.session_id
        session == sessions[session_id]
        attempt_id == session.current_attempt_id
        stop == FirstFailure(resp, fail_at)
        result == submit_quiz(attempt_id, resp)
        retry_attempt_id == Len(quiz_attempts) + 1
    IN
    /\ BagIn(request, pending)
    /\ IsRegistered(session_id)
    /\ IsOwner(request.user_id, session)
    /\ fail_at \in 0..Len(resp)
    /\ fail_at # 0 => fail = "none"
    /\ pending' = pending (-) SetToBag({request})
    /\ UNCHANGED <<limits, catalog, generated, other_tables>>
    /\ IF fail = "none" /\ fail_at = 0 THEN UNCHANGED failures ELSE StoreFails
    /\ IF stop # 0
       THEN \* submit_response raised at response number stop: 500
            /\ RowsFit(stop - 1)
            /\ responses' = responses (+) RecordedRows(attempt_id, resp, stop - 1)
            /\ UNCHANGED <<quiz_attempts, quiz_attempt_items, word_mastery,
                           sessions, active_quiz_sessions, seen_rounds>>
       ELSE IF fail = "score"
       THEN \* a query of submit_quiz raised after the responses, before or
            \* after the UPDATE of completed_at: 500
            /\ RowsFit(Len(resp))
            /\ responses' = responses (+) RecordedRows(attempt_id, resp, Len(resp))
            /\ quiz_attempts' \in {quiz_attempts,
                                   MarkCompleted(quiz_attempts, attempt_id)}
            /\ UNCHANGED <<quiz_attempt_items, word_mastery,
                           sessions, active_quiz_sessions, seen_rounds>>
       ELSE IF result.is_perfect_score \/ result.incorrect_questions = {}
       THEN /\ fail = "none"
            /\ \/ resp = AllCorrect(quiz_attempt_items[attempt_id])
               \/ RowsFit(Len(resp)) /\ TotalRounds < limits.rounds
            /\ responses' = responses (+) RecordedRows(attempt_id, resp, Len(resp))
            /\ quiz_attempts' = MarkCompleted(quiz_attempts, attempt_id)
            /\ Mutate(session_id, submit_quiz_session_round(session, result, None),
                      request.seen_round)
            /\ active_quiz_sessions' =
                   Evict(active_quiz_sessions, session_id, sessions'[session_id])
            /\ UNCHANGED <<quiz_attempt_items, word_mastery>>
       ELSE /\ RowsFit(Len(resp))
            /\ TotalRounds < limits.rounds
            /\ responses' = responses (+) RecordedRows(attempt_id, resp, Len(resp))
            /\ UNCHANGED word_mastery
            /\ \/ /\ fail = "none"
                  /\ Len(quiz_attempts) < limits.attempts
                  /\ quiz_attempts' = Append(MarkCompleted(quiz_attempts, attempt_id),
                                             NewAttempt(session.user_id))
                  /\ quiz_attempt_items' =
                         Append(quiz_attempt_items, result.incorrect_questions)
                  /\ Mutate(session_id,
                         submit_quiz_session_round(session, result, retry_attempt_id),
                         request.seen_round)
                  /\ active_quiz_sessions' =
                         Evict(active_quiz_sessions, session_id, sessions'[session_id])
               \/ \* INSERT INTO quiz_attempts of create_retry_quiz raised: 500
                  /\ fail = "retry_attempt"
                  /\ quiz_attempts' = MarkCompleted(quiz_attempts, attempt_id)
                  /\ Mutate(session_id,
                         submit_quiz_session_round(session, result, None),
                         request.seen_round)
                  /\ UNCHANGED <<quiz_attempt_items, active_quiz_sessions>>
               \/ \* INSERT INTO quiz_attempt_items of create_retry_quiz raised: 500
                  /\ fail = "retry_items"
                  /\ Len(quiz_attempts) < limits.attempts
                  /\ \E written \in (SUBSET result.incorrect_questions)
                                       \ {result.incorrect_questions} :
                        quiz_attempt_items' = Append(quiz_attempt_items, written)
                  /\ quiz_attempts' = Append(MarkCompleted(quiz_attempts, attempt_id),
                                             NewAttempt(session.user_id))
                  /\ Mutate(session_id,
                         submit_quiz_session_round(session, result, None),
                         request.seen_round)
                  /\ UNCHANGED active_quiz_sessions
    /\ RecordAttempts(attempt_id, resp,
                      EffectsApplied(IF stop # 0 THEN stop - 1 ELSE Len(resp)))

\* the HTTP status of the submit endpoint for a request and its payload
submit_status(request, resp, fail, fail_at) ==
    IF ~IsRegistered(request.session_id) THEN 404
    ELSE IF ~IsOwner(request.user_id, sessions[request.session_id]) THEN 403
    ELSE IF FirstFailure(resp, fail_at) # 0 \/ fail # "none" THEN 500
    ELSE 200

(***************************************************************************)
(* GET /api/quiz/session/{session_id}: the reply                           *)
(***************************************************************************)
get_quiz_session_status(session_id, user_id) ==
    IF ~IsRegistered(session_id) THEN [status_code |-> 404]
    ELSE IF ~IsOwner(user_id, sessions[session_id]) THEN [status_code |-> 403]
    ELSE [status_code |-> 200,
          current_round |-> sessions[session_id].current_round,
          is_completed |-> sessions[session_id].is_completed,
          total_rounds_completed |-> Len(sessions[session_id].completed_rounds),
          original_question_count |->
              Cardinality(sessions[session_id].original_questions)]

\* the endpoint reads the registry and writes nothing
GetStatus(session_id, user_id) ==
    /\ user_id <= limits.users
    /\ get_quiz_session_status(session_id, user_id).status_code \in {200, 403, 404}
    /\ UNCHANGED vars

(***************************************************************************)
(* The owner answers every question of the session's current attempt       *)
(* correctly and the store does not fail.                                  *)
(***************************************************************************)
PerfectRound(request) ==
    /\ request.session_id \in active_quiz_sessions
    /\ LET session == sessions[request.session_id]
       IN  HandleSubmit(request,
                        AllCorrect(quiz_attempt_items[session.current_attempt_id]),
                        "none", 0)

Next ==
    \/ \E u \in Users, config \in QuizConfigs : CreateQuizSession(u, config)
    \/ \E u \in Users, config \in QuizConfigs : CreateQuizSessionFails(u, config)
    \/ \E s \in SessionIds, u \in Users : Issue(s, u)
    \/ \E request \in BagToSet(pending) : HandleSubmitNotFound(request)
    \/ \E request \in BagToSet(pending) : HandleSubmitDenied(request)
    \/ \E request \in BagToSet(pending), resp \in ResponseLists,
          fail \in FailPoints, fail_at \in 0..MaxResponses :
            HandleSubmit(request, resp, fail, fail_at)
    \/ \E request \in BagToSet(pending) : PerfectRound(request)
    \/ \E s \in SessionIds, u \in Users : GetStatus(s, u)

Spec == Init /\ [][Next]_vars

(***************************************************************************)
(* Vocabulary of the properties.                                           *)
(***************************************************************************)
\* the questions a round result answered correctly / incorrectly
CorrectIn(result) ==
    {result.responses[i].question_id :
        i \in {j \in DOMAIN result.responses : result.responses[j].is_correct}}

IncorrectIn(result) ==
    {result.responses[i].question_id :
        i \in {j \in DOMAIN result.responses : ~result.responses[j].is_correct}}

\* the attempt the session went on with after its round k
AttemptAfter(session, k) ==
    IF k < Len(session.completed_rounds)
    THEN session.completed_rounds[k + 1].attempt_id
    ELSE session.current_attempt_id

\* the question set of the round that produced a result
ActiveQuestions(result) == quiz_attempt_items[result.attempt_id]

\* C1: whenever a session is completed, every question of its original
\* question set was answered correctly in some round of the session.
C1_CompletedMeansAllAnswered ==
    \A s \in DOMAIN sessions :
        sessions[s].is_completed =>
            sessions[s].original_questions \subseteq
                UNION {CorrectIn(sessions[s].completed_rounds[k]) :
                          k \in DOMAIN sessions[s].completed_rounds}

\* C2: after every imperfect round k the question set the session goes on
\* with (the items of the attempt of round k+1) is exactly the set of
\* questions answered incorrectly in round k.
C2_RetryIsExactlyTheIncorrect ==
    \A s \in DOMAIN sessions :
        \A k \in DOMAIN sessions[s].completed_rounds :
            LET result == sessions[s].completed_rounds[k]
            IN  ~result.is_perfect_score =>
                    quiz_attempt_items[AttemptAfter(sessions[s], k)]
                        = IncorrectIn(result)

\* C3: a session is completed if and only if some submitted round answered
\* every question of that round's question set correctly.
RoundAnsweredAll(result) == ActiveQuestions(result) \subseteq CorrectIn(result)

C3_CompletedIffARoundAnsweredAll ==
    \A s \in DOMAIN sessions :
        sessions[s].is_completed <=>
            \E k \in DOMAIN sessions[s].completed_rounds :
                RoundAnsweredAll(sessions[s].completed_rounds[k])

\* C4: an empty submission is a no-op: it is never applied as a round of the
\* session (no round result appended, no completion, no advance).
C4_EmptySubmissionIsNoOp ==
    \A s \in DOMAIN sessions :
        \A k \in DOMAIN sessions[s].completed_rounds :
            sessions[s].completed_rounds[k].total_questions # 0

\* C5: a response to a question that is not in the round's question set is
\* not recorded, does not count in the score and never enters the next round.
C5_OnlyActiveQuestionsAccepted ==
    /\ \A row \in BagToSet(responses) :
          row.question_id \in quiz_attempt_items[row.attempt_id]
    /\ \A s \in DOMAIN sessions :
          \A k \in DOMAIN sessions[s].completed_rounds :
              LET result == sessions[s].completed_rounds[k]
              IN  /\ \A i \in DOMAIN result.responses :
                        result.responses[i].question_id \in ActiveQuestions(result)
                  /\ AttemptAfter(sessions[s], k) # result.attempt_id =>
                        quiz_attempt_items[AttemptAfter(sessions[s], k)]
                            \subseteq ActiveQuestions(result)

\* C6: the question set of each retry round is a subset of the previous
\* round's question set, hence of the original question set, and is not
\* larger than it.
C6_SessionShrinks ==
    \A s \in DOMAIN sessions :
        /\ quiz_attempt_items[sessions[s].current_attempt_id]
              \subseteq sessions[s].original_questions
        /\ \A k \in DOMAIN sessions[s].completed_rounds :
              LET result == sessions[s].completed_rounds[k]
                  next == quiz_attempt_items[AttemptAfter(sessions[s], k)]
              IN  /\ next \subseteq ActiveQuestions(result)
                  /\ Cardinality(next) <= Cardinality(ActiveQuestions(result))

(***************************************************************************)
(* The user keeps submitting rounds for every session and eventually       *)
(* answers every remaining question correctly; the server answers every    *)
(* request it received.                                                    *)
(***************************************************************************)
Handled(request) ==
    \/ HandleSubmitNotFound(request)
    \/ HandleSubmitDenied(request)
    \/ \E resp \in ResponseLists, fail \in FailPoints, fail_at \in 0..MaxResponses :
          HandleSubmit(request, resp, fail, fail_at)
    \/ PerfectRound(request)

Fairness ==
    /\ WF_vars(\E request \in BagToSet(pending) : Handled(request))
    /\ \A s \in SessionIds :
          /\ SF_vars(s \in DOMAIN sessions /\ Issue(s, sessions[s].user_id))
          /\ SF_vars(\E request \in BagToSet(pending) :
                        request.session_id = s /\ PerfectRound(request))

InitLive ==
    /\ Init
    /\ limits = Limits(1, 1, NumUsers, MaxFailures)

SpecLive == InitLive /\ [][Next]_vars /\ Fairness

\* C7: under that fairness every session that was created is eventually
\* completed.
C7_EventuallyCompleted ==
    \A s \in SessionIds :
        (s \in DOMAIN sessions) ~> (s \in DOMAIN sessions /\ sessions[s].is_completed)

C7_Witness ==
    \E s \in DOMAIN sessions :
        /\ sessions[s].is_completed
        /\ Len(sessions[s].completed_rounds) >= 2
        /\ ~sessions[s].completed_rounds[1].is_perfect_score

\* C8: once the completion flag of a session is set, no step appends a round
\* result to it, records a response under its attempts, gives it another
\* attempt, clears the flag or puts it back in the registry.
AttemptsOf(session) ==
    {session.first_attempt_id, session.current_attempt_id}
        \cup {session.completed_rounds[k].attempt_id :
                 k \in DOMAIN session.completed_rounds}

RowsOf(table, attempt_ids) ==
    [row \in {r \in BagToSet(table) : r.attempt_id \in attempt_ids} |->
        CopiesIn(row, table)]

C8_CompletedIsAbsorbing ==
    [][\A s \in DOMAIN sessions :
          sessions[s].is_completed =>
              /\ sessions'[s] = sessions[s]
              /\ RowsOf(responses', AttemptsOf(sessions[s]))
                    = RowsOf(responses, AttemptsOf(sessions[s]))
              /\ s \notin active_quiz_sessions']_vars

C8_Witness ==
    \E s \in DOMAIN sessions :
        /\ sessions[s].is_completed
        /\ s \notin active_quiz_sessions
        /\ \E request \in BagToSet(pending) :
              /\ request.session_id = s
              /\ request.seen_round = Len(sessions[s].completed_rounds) + 1

\* C9: a round result is applied only from a request that was sent in that
\* round: of two requests sent in round N, the second is not applied as
\* round N+1.
C9_NoStaleRoundApplied ==
    \A s \in DOMAIN sessions :
        \A k \in DOMAIN seen_rounds[s] : seen_rounds[s][k] = k

\* C10: a step changes at most one session (its fields and its place in the
\* registry), the one the handled request names; creating a session changes
\* no existing session.
Touched(s) ==
    \/ sessions'[s] # sessions[s]
    \/ (s \in active_quiz_sessions') # (s \in active_quiz_sessions)

C10_SessionsAreIsolated ==
    [][/\ \A s \in DOMAIN sessions :
             Touched(s) =>
                /\ \E request \in BagToSet(pending) :
                      /\ request.session_id = s
                      /\ pending' = pending (-) SetToBag({request})
                /\ \A t \in DOMAIN sessions \ {s} : ~Touched(t)
       /\ DOMAIN sessions \subseteq DOMAIN sessions'
       /\ DOMAIN sessions' # DOMAIN sessions =>
             \A s \in DOMAIN sessions : ~Touched(s)]_vars

C10_Witness ==
    \E s, t \in DOMAIN sessions :
        /\ t < s
        /\ t \in active_quiz_sessions
        /\ sessions[s].completed_rounds # << >>
        /\ sessions[t].completed_rounds # << >>
        /\ failures > 0

(***************************************************************************)
(* Mastery Aggregator.  The catalog grows while quizzes are taken          *)
(* (insert_question_with_words), one user takes up to MaxMasterySessions   *)
(* sessions, the store does not fail.                                      *)
(***************************************************************************)
MaxMasterySessions == 3
MaxMasteryRounds == 3
MaxMasteryRows == 3

MasteryLimits ==
    [Limits(MaxMasterySessions, 1, 1, 0)
        EXCEPT !.rounds = MaxMasteryRounds, !.rows = MaxMasteryRows]

\* insert_question_with_words: a new question enters the catalog together
\* with its word mappings
AddQuestion(q, ws) ==
    /\ q \in Questions \ DOMAIN catalog_questions
    /\ ws # {}
    /\ catalog_questions' = [x \in DOMAIN catalog_questions \cup {q} |->
                                IF x = q THEN InitialType(q) ELSE catalog_questions[x]]
    /\ mappings' = mappings \cup {<<q, w>> : w \in ws}
    /\ UNCHANGED <<quiz_attempts, quiz_attempt_items, responses, word_mastery,
                   mastery, sessions, active_quiz_sessions, pending,
                   seen_rounds, failures, limits, generated, other_tables>>

\* the catalog the mastery runs start on: its first question only
InitMastery ==
    /\ InitOn({Min(Questions)})
    /\ limits = MasteryLimits

\* every quiz of the mastery runs asks for both types and excludes nothing
MasteryConfigs ==
    {config \in QuizConfigs : /\ DOMAIN config.format_distribution = QuizTypes
                              /\ config.exclude_recent_attempts = 0}

\* the submissions of the mastery runs name questions of the id space only
MasteryResponseLists ==
    {resp \in ResponseLists : \A i \in DOMAIN resp : resp[i].question_id \in Questions}

NextMastery ==
    \/ \E u \in Users, config \in MasteryConfigs : CreateQuizSession(u, config)
    \/ \E s \in 1..MaxMasterySessions, u \in Users : Issue(s, u)
    \/ \E request \in BagToSet(pending) : HandleSubmitNotFound(request)
    \/ \E request \in BagToSet(pending), resp \in MasteryResponseLists :
            HandleSubmit(request, resp, "none", 0)
    \/ \E q \in Questions, w \in Words : AddQuestion(q, {w})

SpecMastery == InitMastery /\ [][NextMastery]_vars

\* the rows of one attempt for one question
RowsFor(attempt_id, q, is_correct) ==
    CopiesIn([attempt_id |-> attempt_id, question_id |-> q,
              is_correct |-> is_correct], responses)

\* C11: for every (user, question), is_mastered holds exactly from the
\* second correct first attempt on (never earlier), and once it holds no
\* later step, whatever is recorded, makes it false again.
C11_MasteredFromSecondCorrectFirstAttempt ==
    /\ [](\A x \in Users \X Questions :
            question_mastery[x].is_mastered <=>
                correct_first_attempts[x] >= MasteryThreshold)
    /\ [][\A x \in Users \X Questions :
            question_mastery[x].is_mastered => question_mastery'[x].is_mastered]_vars

\* a question mastered in two attempts and answered incorrectly in a third
C11_Witness ==
    \E u \in Users, q \in Questions :
        /\ question_mastery[<<u, q>>].is_mastered
        /\ RowsFor(1, q, TRUE) = 1
        /\ RowsFor(2, q, TRUE) = 1
        /\ RowsFor(3, q, FALSE) = 1

\* C12: the first-try-correct counter of every (user, question) is in
\* 0..2 and is_mastered holds exactly when it is 2; no step decreases it,
\* so a correct first attempt made after mastery leaves it at 2.
C12_CounterCappedAndMonotone ==
    /\ [](\A x \in Users \X Questions :
            /\ question_mastery[x].first_try_correct_count \in 0..MasteryThreshold
            /\ question_mastery[x].is_mastered <=>
                   question_mastery[x].first_try_correct_count = MasteryThreshold)
    /\ [][\A x \in Users \X Questions :
            question_mastery'[x].first_try_correct_count >=
                question_mastery[x].first_try_correct_count]_vars

\* a third correct first attempt was recorded and the counter is 2
C12_Witness ==
    \E x \in Users \X Questions :
        /\ correct_first_attempts[x] > MasteryThreshold
        /\ question_mastery[x].first_try_correct_count = MasteryThreshold

\* the rows a step adds to responses for question q
AddedRows(q) ==
    {r \in BagToSet(responses' (-) responses) : r.question_id = q}

wordMasteryEncountered(u, w) ==
    LET seen == {q \in DOMAIN catalog_questions :
                    /\ <<q, w>> \in mappings
                    /\ question_mastery[<<u, q>>].first_try_correct_count > 0}
        mastered == {q \in seen : question_mastery[<<u, q>>].is_mastered}
    IN  [total_questions |-> Cardinality(seen),
         mastered_questions |-> Cardinality(mastered),
         percentage |-> IF seen = {} THEN 0
                        ELSE (100 * Cardinality(mastered)) \div Cardinality(seen)]

wordMastery(u, w) ==
    LET mapped == {q \in DOMAIN catalog_questions : <<q, w>> \in mappings}
        mastered == {q \in mapped : question_mastery[<<u, q>>].is_mastered}
    IN  [total_questions |-> Cardinality(mapped),
         mastered_questions |-> Cardinality(mastered),
         percentage |-> IF mapped = {} THEN 0
                        ELSE (100 * Cardinality(mastered)) \div Cardinality(mapped)]

\* the questions mapped to w, and those of them whose row says mastered
MappedTo(w) == {q \in Questions : <<q, w>> \in mappings}

MasteredBy(u) == {q \in Questions : question_mastery[<<u, q>>].is_mastered}

\* C14: in every reachable state wordMastery(u, w) counts the questions
\* currently mapped to w and the mastered ones among them, and its
\* percentage is 100 * mastered / total (its integer part), 0 when no
\* question is mapped; the read in the state right after new mappings were
\* added counts the new questions in the total, with mastered unchanged.
C14_WordMasteryComputedOnRead ==
    /\ [](\A u \in Users, w \in Words :
            LET m == wordMastery(u, w)
            IN  /\ m.total_questions = Cardinality(MappedTo(w))
                /\ m.mastered_questions = Cardinality(MappedTo(w) \cap MasteredBy(u))
                /\ m.total_questions = 0 => m.percentage = 0
                /\ m.total_questions > 0 =>
                      /\ m.percentage * m.total_questions <= 100 * m.mastered_questions
                      /\ 100 * m.mastered_questions <
                             (m.percentage + 1) * m.total_questions)
    /\ [][\A u \in Users, w \in Words :
            mappings' # mappings =>
              /\ wordMastery(u, w)'.total_questions =
                     wordMastery(u, w).total_questions +
                     Cardinality({q \in Questions : <<q, w>> \in mappings' \ mappings})
              /\ wordMastery(u, w)'.mastered_questions =
                     wordMastery(u, w).mastered_questions]_vars

\* a word with one mastered question was given a second question: 50 percent
C14_Witness ==
    \E u \in Users, w \in Words :
        /\ MappedTo(w) \ {q : <<q, v>> \in InitialMappings({Min(Questions)})} # {}
        /\ wordMastery(u, w).total_questions = 2
        /\ wordMastery(u, w).mastered_questions = 1
        /\ wordMastery(u, w).percentage = 50

(***************************************************************************)
(* The selector on its own: POST /api/quiz/create calls generate_quiz on   *)
(* a store that holds a catalog, one earlier attempt of the user with its  *)
(* responses, and the user's mastered words.                               *)
(***************************************************************************)
MaxSelectorQuestion == 4     \* synonym and antonym questions 1..4
MaxTypeTarget == 2           \* largest per-type target of a distribution

\* questions 5 and 9 are of a type no distribution of the runs asks for
OtherQuestions == {5, 9}

\* question 6 is a second antonym question
SecondAntonym == 6

SelectorType(q) ==
    IF q \in OtherQuestions THEN "analogy"
    ELSE IF q >= MaxSelectorQuestion THEN "antonym" ELSE "synonym"

SelectorCatalogs ==
    {[q \in S \cup OtherQuestions |-> SelectorType(q)] :
        S \in SUBSET ((1..MaxSelectorQuestion) \cup {SecondAntonym})}

\* question 1 -> word 1, 2 -> words 1 and 2, 3 -> word 2, 4 -> word 3
SelectorWords(q) ==
    IF q = 1 THEN {1}
    ELSE IF q = 2 THEN {1, 2}
    ELSE IF q = 3 THEN {2}
    ELSE IF q = 4 THEN {3}
    ELSE {}

\* what the user answered in the earlier attempt
SelectorRecent == {{}, {1}, {2, 4}, OtherQuestions}

SelectorTargets == {-1, 0, 3, 5}

SelectorConfigs ==
    [target_question_count : SelectorTargets,
     format_distribution : UNION {[D -> 0..MaxTypeTarget] : D \in SUBSET QuizTypes},
     exclude_recent_attempts : {0, 1}]

SelectorUser == Min(Users)

InitSelector ==
    /\ catalog_questions \in SelectorCatalogs
    /\ mappings = {<<q, w>> \in (DOMAIN catalog_questions) \X Words :
                        w \in SelectorWords(q)}
    /\ word_mastery \in {{SelectorUser} \X W : W \in SUBSET Words}
    /\ \E answered \in SelectorRecent :
          /\ answered \subseteq DOMAIN catalog_questions
          /\ quiz_attempts = <<[user_id |-> SelectorUser, completed_at |-> TRUE]>>
          /\ quiz_attempt_items = <<answered>>
          /\ responses = SetToBag({[attempt_id |-> 1, question_id |-> q,
                                     is_correct |-> TRUE] : q \in answered})
    /\ question_mastery = [x \in Users \X Questions |-> NoMastery]
    /\ correct_first_attempts = [x \in Users \X Questions |-> 0]
    /\ sessions = << >>
    /\ active_quiz_sessions = {}
    /\ pending = EmptyBag
    /\ recording = EmptyBag
    /\ user_rows = << >>
    /\ csv_uploads = << >>
    /\ seen_rounds = << >>
    /\ failures = 0
    /\ limits = Limits(0, 0, 1, 0)
    /\ generated = << >>

\* POST /api/quiz/create: QuizService.create_quiz_for_user, generate_quiz
GenerateQuiz(user_id, config) ==
    LET excluded_questions ==
            get_excluded_questions(user_id, config.exclude_recent_attempts)
        excluded_words == get_globally_mastered_words(user_id)
    IN  /\ generated = << >>
        /\ user_id <= limits.users
        /\ \E final_questions \in
                 select_questions(excluded_questions, excluded_words, config) :
              /\ quiz_attempts' = Append(quiz_attempts, NewAttempt(user_id))
              /\ quiz_attempt_items' =
                     Append(quiz_attempt_items, BagToSet(final_questions))
              /\ generated' = <<[user_id |-> user_id,
                                 config |-> config,
                                 excluded_questions |-> excluded_questions,
                                 excluded_words |-> excluded_words,
                                 final_questions |-> final_questions]>>
        /\ UNCHANGED <<responses, word_mastery, mastery, catalog, sessions,
                       active_quiz_sessions, pending, seen_rounds, failures, limits,
                       other_tables>>

NextSelector ==
    \E u \in Users, config \in SelectorConfigs : GenerateQuiz(u, config)

SpecSelector == InitSelector /\ [][NextSelector]_vars

\* C15: the questions one call of generate_quiz returns are pairwise
\* distinct, also when the backfill ran after the per-type selection.
C15_NoDuplicateQuestions ==
    \A i \in DOMAIN generated :
        \A q \in BagToSet(generated[i].final_questions) :
            CopiesIn(q, generated[i].final_questions) = 1

\* a call whose per-type selection fell short and whose backfill added a
\* question
C15_Witness ==
    \E i \in DOMAIN generated :
        LET call == generated[i]
            dist == call.config.format_distribution
        IN  /\ BagCardinality(call.final_questions) = call.config.target_question_count
            /\ \E q \in BagToSet(call.final_questions) :
                  Cardinality({p \in BagToSet(call.final_questions) :
                                  quiz_type_of(p) = quiz_type_of(q)}) >
                      (IF quiz_type_of(q) \in DOMAIN dist
                       THEN dist[quiz_type_of(q)] ELSE 0)

\* the questions of a call that exceed the per-type target of their type:
\* at least one of them came from the backfill
BeyondTypeTarget(call) ==
    LET dist == call.config.format_distribution
        final == BagToSet(call.final_questions)
    IN  {q \in final :
            Cardinality({p \in final : quiz_type_of(p) = quiz_type_of(q)}) >
                (IF quiz_type_of(q) \in DOMAIN dist THEN dist[quiz_type_of(q)] ELSE 0)}

\* C16: no question a call of generate_quiz returns is mapped to a word of
\* the excluded-word set (the user's mastered words), whether the per-type
\* step or the backfill selected it; so none has all its words excluded.
C16_NoQuestionOfExcludedWord ==
    \A i \in DOMAIN generated :
        \A q \in BagToSet(generated[i].final_questions) :
            word_question_map(q) \cap generated[i].excluded_words = {}

\* words are excluded, the catalog holds a question with an excluded and a
\* non-excluded word, and the call returned per-type and backfill questions
C16_Witness ==
    \E i \in DOMAIN generated :
        LET call == generated[i]
        IN  /\ call.excluded_words # {}
            /\ \E q \in DOMAIN catalog_questions :
                  /\ word_question_map(q) \cap call.excluded_words # {}
                  /\ word_question_map(q) \ call.excluded_words # {}
            /\ BeyondTypeTarget(call) # {}
            /\ BagToSet(call.final_questions) \ BeyondTypeTarget(call) # {}

\* the questions of the catalog of one type
OfType(quiz_type) ==
    {q \in DOMAIN catalog_questions : quiz_type_of(q) = quiz_type}

\* targets {synonym: 2, antonym: 1}, recency window excluding {5, 9},
\* catalog synonym = {1, 2, 3}, antonym = {4}, no excluded word
RecencyScenario(call) ==
    /\ call.config.format_distribution = [t \in QuizTypes |->
                                             IF t = "synonym" THEN 2 ELSE 1]
    /\ call.excluded_questions = {5, 9}
    /\ OfType("synonym") = {1, 2, 3}
    /\ OfType("antonym") = {4}
    /\ call.excluded_words = {}

\* two distinct questions of {1, 2, 3} plus question 4, three in total
TwoSynonymsAndTheAntonym(final_questions) ==
    /\ BagCardinality(final_questions) = 3
    /\ \A q \in BagToSet(final_questions) : CopiesIn(q, final_questions) = 1
    /\ BagToSet(final_questions) \subseteq {1, 2, 3, 4}
    /\ 4 \in BagToSet(final_questions)

\* C17 (as stated): no call returns a question of its recency-excluded set,
\* and in the scenario every result is two distinct ids of {1, 2, 3} plus 4.
C17_RecencyScenario ==
    \A i \in DOMAIN generated :
        /\ BagToSet(generated[i].final_questions)
               \cap generated[i].excluded_questions = {}
        /\ RecencyScenario(generated[i]) =>
               TwoSynonymsAndTheAntonym(generated[i].final_questions)

\* C17 (amended): no call returns a question of its recency-excluded set,
\* and in the scenario with a target question count of 3 every result is
\* two distinct ids of {1, 2, 3} plus 4.
C17_RecencyScenarioWithTarget ==
    \A i \in DOMAIN generated :
        /\ BagToSet(generated[i].final_questions)
               \cap generated[i].excluded_questions = {}
        /\ (RecencyScenario(generated[i])
              /\ generated[i].config.target_question_count = 3) =>
               TwoSynonymsAndTheAntonym(generated[i].final_questions)

\* the scenario was run with a target question count of 3
C17_Witness ==
    \E i \in DOMAIN generated :
        /\ RecencyScenario(generated[i])
        /\ generated[i].config.target_question_count = 3
        /\ BagCardinality(generated[i].final_questions) = 3

\* the user's n most recently created sessions
RecentSessions(user_id, n) ==
    LET mine == {s \in DOMAIN sessions : sessions[s].user_id = user_id}
    IN  {s \in mine : Cardinality({t \in mine : t > s}) < n}

\* the questions answered in any round of a session
AnsweredIn(session) ==
    {r.question_id : r \in {x \in BagToSet(responses) :
                                x.attempt_id \in AttemptsOf(session)}}

\* C18: a quiz generated for a user with recency window N holds no question
\* the user answered in any round of any of their N most recent sessions,
\* however many retry rounds (attempts) those sessions took.
C18_RecencyWindowCountsSessions ==
    [][\A u \in Users, config \in QuizConfigs :
          CreateQuizSession(u, config) =>
             sessions'[Len(sessions')].original_questions
                \cap UNION {AnsweredIn(sessions[s]) :
                        s \in RecentSessions(u, config.exclude_recent_attempts)} = {}]_vars

\* C19: a call of generate_quiz with a target question count of zero or
\* less returns the empty question list, whatever the distribution and the
\* catalog.
C19_NonPositiveTargetGivesEmptyQuiz ==
    \A i \in DOMAIN generated :
        generated[i].config.target_question_count <= 0 =>
            BagCardinality(generated[i].final_questions) = 0

\* what the catalog could supply to a call with the exclusions relaxed: the
\* questions of the types it asks for and of the backfill type
Suppliable(call) ==
    {q \in DOMAIN catalog_questions :
        quiz_type_of(q) \in DOMAIN call.config.format_distribution \cup {"synonym"}}

\* C20: a call of generate_quiz returns fewer questions than its target
\* only when the catalog cannot supply the target number even with the
\* exclusions relaxed.
C20_ShortOnlyWhenCatalogIsShort ==
    \A i \in DOMAIN generated :
        LET call == generated[i]
        IN  (/\ call.config.target_question_count > 0
             /\ BagCardinality(call.final_questions) <
                    call.config.target_question_count)
               => Cardinality(Suppliable(call)) < call.config.target_question_count

\* the questions a call may select: of a type it asks for or of the
\* backfill type, and passing its exclusion filters
EligibleFor(call) ==
    UNION {Eligible(t, call.excluded_questions, call.excluded_words) :
              t \in DOMAIN call.config.format_distribution \cup {"synonym"}}

\* C21: a generated quiz never has more than target_question_count
\* questions, and has exactly that many whenever the catalog holds at
\* least that many eligible questions, whatever the per-type targets sum to.
C21_QuizSizeIsTheTarget ==
    \A i \in DOMAIN generated :
        LET call == generated[i]
            target == call.config.target_question_count
        IN  /\ BagCardinality(call.final_questions) <= target
            /\ Cardinality(EligibleFor(call)) >= target =>
                   BagCardinality(call.final_questions) = target

(***************************************************************************)
(* Error handling of the session endpoints.                                *)
(***************************************************************************)
\* this step answers the request
Answered(request) ==
    /\ BagIn(request, pending)
    /\ pending' = pending (-) SetToBag({request})

\* what a request can mutate: the tables, the session objects, the registry
Mutable == <<quiz_attempts, quiz_attempt_items, responses, question_mastery,
             sessions, active_quiz_sessions>>

NotOwned(request) ==
    /\ request.session_id \in active_quiz_sessions
    /\ request.user_id # sessions[request.session_id].user_id

\* C22: a submission for a registered session made with the token of a user
\* who does not own it is answered 403 whatever it carries, and the step
\* that answers it records no response, leaves every session unchanged and
\* keeps the registry; a status request of a non-owner is answered 403.
C22_NonOwnerIsRefused ==
    /\ [][\A request \in BagToSet(pending) :
            (Answered(request) /\ NotOwned(request)) =>
                /\ UNCHANGED Mutable
                /\ \A resp \in ResponseLists :
                      submit_status(request, resp, "none", 0) = 403]_vars
    /\ [](\A s \in active_quiz_sessions, u \in Users :
            u # sessions[s].user_id =>
                get_quiz_session_status(s, u).status_code = 403)

\* a non-owner's submission is in flight for a session with a round played
C22_Witness ==
    \E request \in BagToSet(pending) :
        /\ NotOwned(request)
        /\ sessions[request.session_id].completed_rounds # << >>

\* C23: a submission for a session id that is not in the registry is
\* answered 404 whatever it carries, and the step that answers it changes
\* neither the registry nor any recorded attempt, response or session; a
\* status request for such an id is answered 404.
C23_UnknownSessionIsNotFound ==
    /\ [][\A request \in BagToSet(pending) :
            (Answered(request) /\ request.session_id \notin active_quiz_sessions) =>
                /\ UNCHANGED Mutable
                /\ \A resp \in ResponseLists :
                      submit_status(request, resp, "none", 0) = 404]_vars
    /\ [](\A s \in SessionIds \ active_quiz_sessions, u \in Users :
            get_quiz_session_status(s, u).status_code = 404)

\* a submission is in flight for a session that completed and was evicted
C23_Witness ==
    \E request \in BagToSet(pending) :
        /\ request.session_id \notin active_quiz_sessions
        /\ sessions[request.session_id].is_completed
        /\ responses # EmptyBag

NamesUnknownQuestion(resp) ==
    \E i \in DOMAIN resp : resp[i].question_id \notin DOMAIN catalog_questions

\* C24: when the owner's submission holds a response whose question id is
\* not in the catalog, the endpoint answers 500 and the step leaves every
\* session as it was (round number, active attempt id, round results,
\* completion flag) and keeps the registry.
\* (the step is stated by its contrapositive: a step that answers a request
\* and changes a session or the registry is not the handling of a submission
\* that names an unknown question)
C24_UnknownQuestionLeavesSession ==
    /\ [][\A request \in BagToSet(pending) :
            (/\ Answered(request)
             /\ IsRegistered(request.session_id)
             /\ <<sessions, active_quiz_sessions>>' # <<sessions, active_quiz_sessions>>) =>
                \A resp \in ResponseLists, fail_at \in 0..MaxResponses :
                    NamesUnknownQuestion(resp) =>
                        ~HandleSubmit(request, resp, "none", fail_at)]_vars
    /\ [](\A request \in BagToSet(pending), resp \in ResponseLists :
            (/\ IsRegistered(request.session_id)
             /\ request.user_id = sessions[request.session_id].user_id
             /\ NamesUnknownQuestion(resp)) =>
                submit_status(request, resp, "none", 0) = 500)

\* a response was recorded under the active attempt of a session that has
\* no round result: the only way there is a submission that raised
C24_Witness ==
    \E s \in active_quiz_sessions :
        /\ sessions[s].completed_rounds = << >>
        /\ failures = 0
        /\ \E row \in BagToSet(responses) : row.attempt_id = sessions[s].current_attempt_id

\* C25: a step that answers a submission during which a store operation
\* failed leaves every session as it was before the call: round number,
\* active attempt id, completed-round list and completion flag.
C25_StoreFailureLeavesSession ==
    [][\A request \in BagToSet(pending) :
        (Answered(request) /\ failures' # failures) =>
            UNCHANGED sessions]_vars

NoScore == -1

RoundEntry(number, round_result) ==
    [round |-> number,
     attempt_id |-> round_result.attempt_id,
     questions_count |-> round_result.total_questions,
     correct_answers |-> round_result.correct_answers,
     score_percentage |-> round_result.score_percentage,
     is_perfect |-> round_result.is_perfect_score]

\* variant: enumerate() without the + 1
get_session_summary_from_zero(session) ==
    [current_round |-> session.current_round,
     is_completed |-> session.is_completed,
     total_rounds |-> Len(session.completed_rounds),
     original_question_count |-> Cardinality(session.original_questions),
     first_attempt_score |-> IF session.completed_rounds = << >> THEN NoScore
                             ELSE session.completed_rounds[1].score_percentage,
     rounds_summary |-> [i \in DOMAIN session.completed_rounds |->
                            RoundEntry(i - 1, session.completed_rounds[i])]]

get_session_summary(session) ==
    IF session.completed_rounds = << >>
    THEN [current_round |-> session.current_round,
          is_completed |-> session.is_completed,
          total_rounds |-> 0,
          original_question_count |-> Cardinality(session.original_questions),
          first_attempt_score |-> NoScore,
          rounds_summary |-> << >>]
    ELSE LET first_round == session.completed_rounds[1]
         IN  [current_round |-> session.current_round,
              is_completed |-> session.is_completed,
              total_rounds |-> Len(session.completed_rounds),
              original_question_count |-> Cardinality(session.original_questions),
              first_attempt_score |-> first_round.score_percentage,
              rounds_summary |-> [i \in DOMAIN session.completed_rounds |->
                                     RoundEntry(i, session.completed_rounds[i])]]

\* C27: for every session, whatever its state, the summary has total_rounds
\* equal to the number of round submissions applied to the session so far,
\* first_attempt_score equal to the score of the first of them (none before
\* any round), and one entry per round, numbered 1..total_rounds, each with
\* the attempt id, counts and score of the round of that number.
C27_SummaryReportsTheRounds ==
    \A s \in DOMAIN sessions :
        LET summary == get_session_summary(sessions[s])
            rounds == sessions[s].completed_rounds
        IN  /\ summary.total_rounds = Len(seen_rounds[s])
            /\ summary.first_attempt_score =
                   IF seen_rounds[s] = << >> THEN NoScore
                   ELSE rounds[1].score_percentage
            /\ DOMAIN summary.rounds_summary = 1..summary.total_rounds
            /\ \A i \in DOMAIN summary.rounds_summary :
                   /\ summary.rounds_summary[i].round = i
                   /\ summary.rounds_summary[i].attempt_id = rounds[i].attempt_id
                   /\ summary.rounds_summary[i].questions_count = rounds[i].total_questions
                   /\ summary.rounds_summary[i].correct_answers = rounds[i].correct_answers
                   /\ summary.rounds_summary[i].score_percentage = rounds[i].score_percentage
                   /\ summary.rounds_summary[i].is_perfect = rounds[i].is_perfect_score

\* the summary of a session that took two rounds, the first one imperfect
C27_Witness ==
    \E s \in DOMAIN sessions :
        /\ get_session_summary(sessions[s]).total_rounds = 2
        /\ get_session_summary(sessions[s]).first_attempt_score \notin {NoScore, 100}
        /\ get_session_summary(sessions[s]).rounds_summary[2].is_perfect

\* C28: a step that creates a session runs the selector once (one attempt
\* row is added, with its items) and registers a session in ACTIVE(1):
\* round number 1, not completed, no round result, active attempt id equal
\* to the first attempt id, which is the new attempt, and a question set
\* that is a result of the selector and is the item set of that attempt.
C28_CreateYieldsActiveRoundOne ==
    [][Len(sessions') # Len(sessions) =>
        LET s == Len(sessions')
            session == sessions'[s]
        IN  /\ Len(sessions') = Len(sessions) + 1
            /\ Len(quiz_attempts') = Len(quiz_attempts) + 1
            /\ session.current_round = 1
            /\ ~session.is_completed
            /\ session.completed_rounds = << >>
            /\ session.first_attempt_id = Len(quiz_attempts')
            /\ session.current_attempt_id = session.first_attempt_id
            /\ session.original_questions = quiz_attempt_items'[session.first_attempt_id]
            /\ \E config \in QuizConfigs :
                  session.original_questions \in generate_quiz(session.user_id, config)
            /\ s \in active_quiz_sessions'
            /\ \A t \in DOMAIN sessions : sessions'[t] = sessions[t]]_vars

\* a second session was just created, after the first one played a round
C28_Witness ==
    /\ Len(sessions) = 2
    /\ sessions[1].completed_rounds # << >>
    /\ sessions[2].completed_rounds = << >>
    /\ sessions[2].original_questions # {}
    /\ sessions[2].current_attempt_id = Len(quiz_attempts)

\* the number of rows of responses for a question under an attempt
ResponsesFor(attempt_id, question_id) ==
    CopiesIn([attempt_id |-> attempt_id, question_id |-> question_id,
              is_correct |-> TRUE], responses)
    + CopiesIn([attempt_id |-> attempt_id, question_id |-> question_id,
                is_correct |-> FALSE], responses)

\* C29: responses holds at most one row for a question under an attempt id
\* (the attempt fixes the round and the user).
C29_OneResponsePerAttemptAndQuestion ==
    \A attempt_id \in DOMAIN quiz_attempts, q \in Questions :
        ResponsesFor(attempt_id, q) <= 1

(***************************************************************************)
(* Concurrent recording.  Every request opens its own connection with      *)
(* autocommit, so the INSERTs of requests served by different workers      *)
(* interleave in the store: an INSERT into responses starts the mastery     *)
(* trigger of its row, and the trigger of another row may run before it    *)
(* finishes.                                                               *)
(***************************************************************************)
MaxWriters == 2
MaxConcurrentSessions == 2
MaxConcurrentRows == 3

ConcurrentLimits ==
    [Limits(MaxConcurrentSessions, MaxWriters, NumUsers, 0)
        EXCEPT !.rows = MaxConcurrentRows]

InitConcurrent ==
    /\ InitOn(Questions)
    /\ limits = ConcurrentLimits

\* variant: the trigger adds one to the count it read when it started
IncrementBaseRead(snapshot, current) == snapshot

\* the increment is atomic: it applies to the row as it is when it is written
IncrementBase(snapshot, current) == current

\* submit_response on some connection: the row is INSERTed, its trigger starts
InsertResponse(attempt_id, r) ==
    LET user_id == quiz_attempts[attempt_id].user_id
    IN
    /\ attempt_id \in DOMAIN quiz_attempts
    /\ r.question_id \in DOMAIN catalog_questions
    /\ BagCardinality(recording) < limits.in_flight
    /\ RowsFit(1)
    /\ responses' = responses (+) RecordedRows(attempt_id, <<r>>, 1)
    /\ recording' = recording (+) SetToBag({
            [user_id |-> user_id,
             question_id |-> r.question_id,
             is_correct |-> submit_response(r).is_correct,
             is_first_attempt |-> IsFirstAttempt(responses, attempt_id, <<r>>, 1),
             snapshot |-> question_mastery[<<user_id, r.question_id>>]]})
    /\ UNCHANGED <<quiz_attempts, quiz_attempt_items, word_mastery, question_mastery,
                   correct_first_attempts, catalog, sessions, active_quiz_sessions,
                   pending, seen_rounds, failures, limits, generated, other_tables>>

\* the trigger of a row finishes: the mastery row of (user, question) is written
FinishTrigger(w) ==
    LET x == <<w.user_id, w.question_id>>
    IN
    /\ BagIn(w, recording)
    /\ recording' = recording (-) SetToBag({w})
    /\ question_mastery' =
          [question_mastery EXCEPT ![x] =
              record_attempt(IncrementBase(w.snapshot, question_mastery[x]),
                             w.is_correct, w.is_first_attempt)]
    /\ correct_first_attempts' =
          [correct_first_attempts EXCEPT ![x] =
              IF w.is_correct /\ w.is_first_attempt THEN @ + 1 ELSE @]
    /\ UNCHANGED <<quiz_attempts, quiz_attempt_items, responses, word_mastery,
                   catalog, sessions, active_quiz_sessions, pending, seen_rounds,
                   failures, limits, generated, other_tables>>

NextConcurrent ==
    \/ \E u \in Users, config \in MasteryConfigs : CreateQuizSession(u, config)
    \/ \E attempt_id \in 1..MaxAttempts, r \in [question_id : Questions, answer : Answers] :
            InsertResponse(attempt_id, r)
    \/ \E w \in BagToSet(recording) : FinishTrigger(w)

SpecConcurrent == InitConcurrent /\ [][NextConcurrent]_vars

\* C30: no update of the first-try-correct counter is lost: the counter of
\* every (user, question) is the number of correct first attempts whose
\* recording finished, capped at 2, and is_mastered holds exactly from the
\* second one; in particular, when the recording of a correct first attempt
\* that started at count 0 finishes after another one brought the count to
\* 1, the count becomes 2 and is_mastered true.
C30_NoLostUpdate ==
    /\ [](\A x \in Users \X Questions :
            /\ question_mastery[x].first_try_correct_count =
                   Min({correct_first_attempts[x], MasteryThreshold})
            /\ question_mastery[x].is_mastered <=>
                   correct_first_attempts[x] >= MasteryThreshold)
    /\ [][\A w \in BagToSet(recording) :
            LET x == <<w.user_id, w.question_id>>
            IN  (/\ recording' = recording (-) SetToBag({w})
                 /\ w.is_correct /\ w.is_first_attempt
                 /\ w.snapshot.first_try_correct_count = 0
                 /\ question_mastery[x].first_try_correct_count = 1) =>
                    /\ question_mastery'[x].first_try_correct_count = MasteryThreshold
                    /\ question_mastery'[x].is_mastered]_vars

\* two correct first attempts at one question of one user started at count
\* 0; one of them finished and brought the count to 1, the other one is
\* still recording
C30_Witness ==
    \E w \in BagToSet(recording) :
        /\ w.is_correct /\ w.is_first_attempt
        /\ w.snapshot.first_try_correct_count = 0
        /\ question_mastery[<<w.user_id, w.question_id>>].first_try_correct_count = 1

(***************************************************************************)
(* Recording is all-or-nothing.  The rows of responses do not keep their   *)
(* order, so the correct first attempts at a question are bracketed: an    *)
(* attempt whose rows for the question are all correct has a correct first *)
(* response, an attempt with no correct row for it has none.               *)
(***************************************************************************)
AttemptsOfUser(user_id) ==
    {a \in DOMAIN quiz_attempts : quiz_attempts[a].user_id = user_id}

SurelyCorrectFirst(user_id, q) ==
    {a \in AttemptsOfUser(user_id) :
        RowsFor(a, q, TRUE) > 0 /\ RowsFor(a, q, FALSE) = 0}

PossiblyCorrectFirst(user_id, q) ==
    {a \in AttemptsOfUser(user_id) : RowsFor(a, q, TRUE) > 0}

\* C31: in every reachable state, also after a store failure in the middle
\* of a submission, the mastery counter of a (user, question) accounts for
\* the rows of responses and for nothing else: it is at least the number
\* of attempts whose recorded first response to the question is surely
\* correct and at most the number of attempts that have a correct row for
\* it, both capped at 2, and is_mastered holds exactly at 2.
C31_RecordedIffApplied ==
    \A u \in Users, q \in Questions :
        LET m == question_mastery[<<u, q>>]
        IN  /\ m.first_try_correct_count >=
                   Min({Cardinality(SurelyCorrectFirst(u, q)), MasteryThreshold})
            /\ m.first_try_correct_count <=
                   Min({Cardinality(PossiblyCorrectFirst(u, q)), MasteryThreshold})
            /\ m.is_mastered <=> m.first_try_correct_count = MasteryThreshold

\* the store failed at the second response of a submission: the first one
\* is recorded with its update, the session has no round result
C31_Witness ==
    /\ failures > 0
    /\ \E s \in active_quiz_sessions :
          /\ sessions[s].completed_rounds = << >>
          /\ \E q \in Questions :
                /\ RowsFor(sessions[s].current_attempt_id, q, TRUE) = 1
                /\ question_mastery[<<sessions[s].user_id, q>>].first_try_correct_count = 1

(***************************************************************************)
(* POST /api/auth/register.  Usernames, passwords and e-mail addresses are *)
(* drawn from small sets; "NULL" stands for a request without e-mail.      *)
(***************************************************************************)
MaxUserRows == 3

UserNames == {"ann", "bob", "cy"}
Passwords == {"pw1", "pw2"}
Emails == {"NULL", "ann@example.org"}

UserRegister == [username : UserNames, password : Passwords, email : Emails]

AuthLimits == Limits(0, 0, NumUsers, MaxFailures)

InitAuth ==
    /\ InitOn(Questions)
    /\ limits = AuthLimits

get_password_hash(password) == <<"bcrypt", password>>

\* SELECT ... FROM users WHERE username = %s: the ids of the rows found
get_user_by_username(username) ==
    {user_id \in DOMAIN user_rows : user_rows[user_id].username = username}

\* what the handler raises: the HTTPException of the duplicate check, an
\* exception of the store, or nothing
RegisterRaises(user_data, store_fails) ==
    IF store_fails THEN [raised |-> "Exception", status_code |-> 500,
                         detail |-> "store"]
    ELSE IF get_user_by_username(user_data.username) # {}
    THEN [raised |-> "HTTPException", status_code |-> 400,
          detail |-> "Username already registered"]
    ELSE [raised |-> "none", status_code |-> 200, detail |-> "none"]

\* the reply: the try block has a single except Exception clause, which
\* also catches the HTTPException raised inside it
register_reply(user_data, store_fails) ==
    LET e == RegisterRaises(user_data, store_fails)
    IN  IF e.raised = "none"
        THEN [status_code |-> 200, error |-> "none"]
        ELSE [status_code |-> 500, error |-> "Registration failed"]

Register(user_data) ==
    /\ Len(user_rows) < MaxUserRows
    /\ IF get_user_by_username(user_data.username) # {}
       THEN UNCHANGED user_rows
       ELSE user_rows' = Append(user_rows,
                [username |-> user_data.username,
                 password_hash |-> get_password_hash(user_data.password),
                 email |-> user_data.email])
    /\ UNCHANGED <<db, sessions, active_quiz_sessions, pending, seen_rounds,
                   failures, limits, generated, csv_uploads>>

\* the SELECT or the INSERT raises: 500, no row
RegisterFails(user_data) ==
    /\ StoreFails
    /\ UNCHANGED <<db, sessions, active_quiz_sessions, pending, seen_rounds,
                   limits, generated, other_tables>>

NextAuth ==
    \/ \E user_data \in UserRegister : Register(user_data)
    \/ \E user_data \in UserRegister : RegisterFails(user_data)

SpecAuth == InitAuth /\ [][NextAuth]_vars

UsersNamed(username) == get_user_by_username(username)

\* C32: registering a username that is already registered is answered 400
\* with the error "Username already registered", adds no row to users and
\* leaves the rows that are there as they were.
C32_DuplicateRegistrationIs400 ==
    /\ [](\A user_data \in UserRegister :
            UsersNamed(user_data.username) # {} =>
                /\ register_reply(user_data, FALSE).status_code = 400
                /\ register_reply(user_data, FALSE).error = "Username already registered")
    /\ [][\A user_data \in UserRegister :
            (UsersNamed(user_data.username) # {} /\ Register(user_data)) =>
                UNCHANGED user_rows]_vars
    /\ [](\A username \in UserNames : Cardinality(UsersNamed(username)) <= 1)

(***************************************************************************)
(* CSVUploadService.  An upload record keeps what the validator finds in   *)
(* the file (the levels of its results, the number of valid rows) and, as  *)
(* history, the calls of import_validated_csv made for it.                 *)
(***************************************************************************)
MaxUploads == 2
MaxCsvRows == 1
MaxCsvCalls == 2

ValidationLevel == {"ERROR", "WARNING", "INFO"}

CsvLimits == Limits(0, 0, NumUsers, 0)

InitCsv ==
    /\ InitOn(Questions)
    /\ limits = CsvLimits

\* upload_and_validate_csv: the record is created whatever the validation says
UploadAndValidateCsv(levels, valid_rows) ==
    /\ Len(csv_uploads) < MaxUploads
    /\ csv_uploads' = Append(csv_uploads,
            [levels |-> levels,
             valid_rows |-> valid_rows,
             is_valid |-> "ERROR" \notin levels,
             status |-> "uploaded",
             calls |-> 0,
             import_runs |-> 0,
             imported_count |-> 0,
             last_call |-> [force_import |-> FALSE, levels |-> {},
                            success |-> FALSE, requires_force |-> FALSE]])
    /\ UNCHANGED <<db, sessions, active_quiz_sessions, pending, seen_rounds,
                   failures, limits, generated, user_rows>>

\* variant: force_import also overrides errors
ImportAllowedWhenForced(levels, force_import) ==
    force_import \/ levels \cap {"ERROR", "WARNING"} = {}

\* neither of the two early returns is taken
ImportAllowed(levels, force_import) ==
    LET has_errors == "ERROR" \in levels
        has_warnings == "WARNING" \in levels
    IN  ~has_errors /\ ~(has_warnings /\ ~force_import)

\* import_validated_csv for an upload record.  database_down: the database
\* check of the re-validation cannot connect (an ERROR result);
\* import_raises: _import_questions cannot connect; update_fails: the UPDATE
\* of the record fails (it is only printed); imported: the rows that
\* add_question_with_mastery_tracking accepted
ImportValidatedCsv(upload_id, force_import, database_down, import_raises, update_fails, imported) ==
    /\ upload_id \in DOMAIN csv_uploads
    /\ LET record == csv_uploads[upload_id]
           levels == IF database_down THEN record.levels \cup {"ERROR"}
                     ELSE record.levels
           called == [record EXCEPT !.calls = @ + 1]
           call(success, requires_force) ==
               [force_import |-> force_import, levels |-> levels,
                success |-> success, requires_force |-> requires_force]
       IN  /\ record.calls < MaxCsvCalls
           /\ imported \in 0..record.valid_rows
           /\ IF ~ImportAllowed(levels, force_import)
              THEN csv_uploads' = [csv_uploads EXCEPT ![upload_id] =
                       [called EXCEPT !.last_call =
                           call(FALSE, "ERROR" \notin levels)]]
              ELSE IF import_raises
              THEN csv_uploads' = [csv_uploads EXCEPT ![upload_id] =
                       [called EXCEPT !.last_call = call(FALSE, FALSE),
                                      !.status = IF update_fails THEN @ ELSE "failed"]]
              ELSE csv_uploads' = [csv_uploads EXCEPT ![upload_id] =
                       [called EXCEPT !.last_call = call(TRUE, FALSE),
                                      !.import_runs = @ + 1,
                                      !.imported_count = @ + imported,
                                      !.status = IF update_fails THEN @ ELSE "imported"]]
    /\ UNCHANGED <<db, sessions, active_quiz_sessions, pending, seen_rounds,
                   failures, limits, generated, user_rows>>

\* no record has the id: {'success': False, 'error': 'Upload record not found'}
ImportUnknownUpload(upload_id) ==
    /\ upload_id \notin DOMAIN csv_uploads
    /\ UNCHANGED vars

NextCsv ==
    \/ \E levels \in SUBSET ValidationLevel, valid_rows \in 0..MaxCsvRows :
            UploadAndValidateCsv(levels, valid_rows)
    \/ \E upload_id \in 1..MaxUploads, force_import \in BOOLEAN,
          database_down \in BOOLEAN, import_raises \in BOOLEAN,
          update_fails \in BOOLEAN, imported \in 0..MaxCsvRows :
            ImportValidatedCsv(upload_id, force_import, database_down,
                               import_raises, update_fails, imported)
    \/ \E upload_id \in 1..MaxUploads : ImportUnknownUpload(upload_id)

SpecCsv == InitCsv /\ [][NextCsv]_vars

\* the call of import_validated_csv made in this step for upload u
CalledFor(u) == csv_uploads'[u].calls # csv_uploads[u].calls

Imported(u) == csv_uploads'[u].import_runs # csv_uploads[u].import_runs

\* C33: a call of import_validated_csv whose re-validation has an ERROR
\* result returns success = False and imports nothing, whatever
\* force_import is; with WARNING and no ERROR results it imports only if
\* force_import is true and otherwise returns requires_force; the status
\* of an upload record becomes 'imported' only in a step that performed an
\* import for it.
C33_ImportOnlyWhenAllowed ==
    [][\A u \in DOMAIN csv_uploads :
        LET c == csv_uploads'[u].last_call
        IN  /\ CalledFor(u) =>
                /\ "ERROR" \in c.levels =>
                      /\ ~c.success
                      /\ ~Imported(u)
                      /\ csv_uploads'[u].imported_count = csv_uploads[u].imported_count
                /\ ("ERROR" \notin c.levels /\ "WARNING" \in c.levels) =>
                      /\ Imported(u) => c.force_import
                      /\ ~c.force_import => (~c.success /\ c.requires_force)
                /\ c.success <=> Imported(u)
            /\ (csv_uploads'[u].status = "imported" /\ csv_uploads[u].status # "imported")
                  => (CalledFor(u) /\ Imported(u))]_vars

\* an upload with warnings was refused without force_import and imported
\* with it
C33_Witness ==
    \E u \in DOMAIN csv_uploads :
        /\ csv_uploads[u].levels = {"WARNING"}
        /\ csv_uploads[u].calls = 2
        /\ csv_uploads[u].import_runs = 1
        /\ csv_uploads[u].status = "imported"
        /\ csv_uploads[u].last_call.force_import

\* the questions of a type that a call may select: in the catalog, not
\* recently answered, mapped to no excluded word
Candidates(t, excluded_questions, excluded_words) ==
    {q \in DOMAIN catalog_questions :
        /\ catalog_questions[q] = t
        /\ q \notin excluded_questions
        /\ \A w \in excluded_words : <<q, w>> \notin mappings}

\* C34: for every distribution, the per-type step has a result, and in each
\* of its results every quiz type of the distribution contributes
\* min(its target count, its number of eligible questions) questions, all
\* of that type: a type without candidates contributes none and the other
\* types contribute what they would contribute alone.
C34_PerTypeContribution ==
    \A dist \in UNION {[D -> 0..MaxTypeTarget] : D \in SUBSET QuizTypes},
       recent \in {0, 1} :
        LET excluded_questions == get_excluded_questions(SelectorUser, recent)
            excluded_words == get_globally_mastered_words(SelectorUser)
            results == per_type_step(excluded_questions, excluded_words, dist)
        IN  /\ results # {}
            /\ \A f \in results, t \in DOMAIN dist :
                  /\ Cardinality(f[t]) =
                        Min({dist[t], Cardinality(Candidates(t, excluded_questions,
                                                             excluded_words))})
                  /\ \A q \in f[t] : catalog_questions[q] = t

\* a quiz was generated for a distribution that asks for both types: the
\* antonym type has no candidate and the quiz is the synonym candidates
C34_Witness ==
    /\ generated # << >>
    /\ LET call == generated[1]
           dist == call.config.format_distribution
       IN  /\ DOMAIN dist = QuizTypes
           /\ dist["antonym"] = MaxTypeTarget
           /\ dist["synonym"] = MaxTypeTarget
           /\ Candidates("antonym", call.excluded_questions, call.excluded_words) = {}
           /\ Cardinality(Candidates("synonym", call.excluded_questions,
                                      call.excluded_words)) = MaxTypeTarget
           /\ call.config.target_question_count > MaxTypeTarget
           /\ BagToSet(call.final_questions) =
                  Candidates("synonym", call.excluded_questions, call.excluded_words)

FullyMastered(u) == {w \in Words : wordMastery(u, w).percentage = 100}

SubmittedRounds ==
    {sessions[s].completed_rounds[k] :
        <<s, k>> \in {x \in (DOMAIN sessions) \X (1..(MaxRounds + 1)) :
                        /\ x[2] \in DOMAIN sessions[x[1]].completed_rounds
                        /\ sessions[x[1]].completed_rounds[x[2]].responses # << >>}}

\* the counts, the percentage and the flag of a round result agree
ScoreAgrees(result) ==
    /\ result.total_questions = Len(result.responses)
    /\ 0 <= result.correct_answers
    /\ result.correct_answers <= result.total_questions
    /\ result.score_percentage =
           (100 * result.correct_answers) \div result.total_questions
    /\ result.is_perfect_score <=>
           result.correct_answers = result.total_questions

\* C37: for every submitted round with a non-empty response list,
\* 0 <= correct_answers <= total_questions, total_questions is the number
\* of responses submitted, score_percentage = 100 * correct_answers /
\* total_questions, is_perfect_score holds iff correct_answers =
\* total_questions, and the number of next-round questions equals
\* total_questions - correct_answers.
C37_ScoreArithmetic ==
    \A result \in SubmittedRounds :
        /\ ScoreAgrees(result)
        /\ Cardinality(result.incorrect_questions) =
               result.total_questions - result.correct_answers

\* round_number of the QuizRoundResult the submit endpoint builds
round_number(updated_session) == updated_session.current_round - 1

\* the step is a submission to session s that the endpoint answers with 200:
\* a round result was appended and the session was completed or moved on to
\* its retry attempt
RoundReplied(s) ==
    /\ Len(sessions'[s].completed_rounds) = Len(sessions[s].completed_rounds) + 1
    /\ \/ sessions'[s].is_completed
       \/ sessions'[s].current_attempt_id # sessions[s].current_attempt_id

\* C38: in every reachable state an active (not completed) session has
\* current_round = number of completed rounds + 1, and the round number the
\* endpoint reports for the k-th submitted round of a session is k, also for
\* the round that completes the session.
C38_RoundNumbering ==
    /\ [](\A s \in DOMAIN sessions :
            ~sessions[s].is_completed =>
                sessions[s].current_round = Len(sessions[s].completed_rounds) + 1)
    /\ [][\A s \in DOMAIN sessions :
            RoundReplied(s) =>
                round_number(sessions'[s]) = Len(sessions'[s].completed_rounds)]_vars

\* every round submitted so far answered questions of its own attempt only,
\* each of them once
RoundsWellFormed ==
    \A s \in DOMAIN sessions : \A k \in DOMAIN sessions[s].completed_rounds :
        LET result == sessions[s].completed_rounds[k]
        IN  \A i \in DOMAIN result.responses :
                /\ result.responses[i].question_id \in
                       quiz_attempt_items[result.attempt_id]
                /\ \A j \in DOMAIN result.responses :
                       result.responses[j].question_id =
                           result.responses[i].question_id => j = i

\* C39: over the life of one session, whatever the sequence of round
\* submissions, the first-try-correct counter of a (user, question)
\* increases by at most 1: as long as a single session has been created
\* (every increase since the start belongs to it) no counter exceeds 1.
C39_AtMostOncePerSession ==
    Len(sessions) = 1 =>
        \A x \in Users \X Questions :
            question_mastery[x].first_try_correct_count <= 1

====
